---------------------------- MODULE Spec2Model ----------------------------
(***************************************************************************)
(* A model of the goshare HTTP file gateway (package server): the request  *)
(* router built by StartServer, the auth gate applyAuthMiddleware, and     *)
(* FileHandler.ServeHTTP with its path browser, JSON listing API and       *)
(* upload handler.                                                         *)
(*                                                                         *)
(* Strings are sequences of one-character strings, so that the code's      *)
(* strings.HasPrefix / strings.TrimPrefix / filepath.Clean / filepath.Join *)
(* work on characters exactly as in the program: "/sx" has the string      *)
(* prefix "/s" although the directory /sx is not inside the directory /s.  *)
(*                                                                         *)
(* The modelled filesystem is a set of directories and a set of regular    *)
(* files without symbolic links; a file fails only where a request is said *)
(* to meet a fault.                                                        *)
(***************************************************************************)
EXTENDS Naturals, Sequences, FiniteSets

----------------------------------------------------------------------------
(* Strings *)

Sep    == "/"
Slash  == <<"/">>
Dot    == <<".">>
DotDot == <<".", ".">>
Empty  == <<>>

\* strings.HasPrefix(s, prefix)
HasPrefix(s, prefix) ==
    /\ Len(prefix) <= Len(s)
    /\ SubSeq(s, 1, Len(prefix)) = prefix

\* strings.HasSuffix(s, suffix)
HasSuffix(s, suffix) ==
    /\ Len(suffix) <= Len(s)
    /\ SubSeq(s, Len(s) - Len(suffix) + 1, Len(s)) = suffix

\* strings.TrimPrefix(s, prefix)
TrimPrefix(s, prefix) ==
    IF HasPrefix(s, prefix) THEN SubSeq(s, Len(prefix) + 1, Len(s)) ELSE s

\* The segments of s between separators: Split("/a//b") = <<"", "a", "", "b">>.
RECURSIVE Split(_)
Split(s) ==
    IF s = Empty THEN << Empty >>
    ELSE LET rest == Split(Tail(s))
         IN  IF Head(s) = Sep
             THEN << Empty >> \o rest
             ELSE << <<Head(s)>> \o Head(rest) >> \o Tail(rest)

\* The segments joined by single separators.
RECURSIVE JoinSegs(_)
JoinSegs(segs) ==
    IF segs = <<>> THEN Empty
    ELSE IF Len(segs) = 1 THEN Head(segs)
    ELSE Head(segs) \o Slash \o JoinSegs(Tail(segs))

\* The lexical processing of filepath.Clean: segs are the segments still to
\* read, out the segments kept so far.  Empty and "." segments are dropped;
\* ".." removes the last kept segment, is dropped at the root of a rooted
\* path, and is kept at the front of a relative path.
RECURSIVE CleanSegs(_, _, _)
CleanSegs(segs, out, rooted) ==
    IF segs = <<>> THEN out
    ELSE LET seg == Head(segs)
             rest == Tail(segs)
         IN  IF seg = Empty \/ seg = Dot
             THEN CleanSegs(rest, out, rooted)
             ELSE IF seg = DotDot
             THEN IF out # <<>> /\ out[Len(out)] # DotDot
                  THEN CleanSegs(rest, SubSeq(out, 1, Len(out) - 1), rooted)
                  ELSE IF rooted
                       THEN CleanSegs(rest, out, rooted)
                       ELSE CleanSegs(rest, Append(out, seg), rooted)
             ELSE CleanSegs(rest, Append(out, seg), rooted)

\* filepath.Clean(path) on a slash-separated system.
Clean(path) ==
    IF path = Empty THEN Dot
    ELSE LET rooted == Head(path) = Sep
             body == JoinSegs(CleanSegs(Split(path), <<>>, rooted))
             res == IF rooted THEN Slash \o body ELSE body
         IN  IF res = Empty THEN Dot ELSE res

\* filepath.Dir(path): the path up to its last separator, cleaned.
Dir(path) ==
    LET seps == {i \in 1..Len(path) : path[i] = Sep}
        last == IF seps = {} THEN 0 ELSE CHOOSE i \in seps : \A j \in seps : j <= i
    IN  Clean(SubSeq(path, 1, last))

\* filepath.Base(path) of a cleaned path: its last element.
Base(path) == LET segs == Split(path) IN segs[Len(segs)]

\* The letters, in the order of their byte values.
Upper == <<"A", "B", "C", "D", "E", "F", "G", "H", "I", "J", "K", "L", "M",
           "N", "O", "P", "Q", "R", "S", "T", "U", "V", "W", "X", "Y", "Z">>
Lower == <<"a", "b", "c", "d", "e", "f", "g", "h", "i", "j", "k", "l", "m",
           "n", "o", "p", "q", "r", "s", "t", "u", "v", "w", "x", "y", "z">>

IsUpper(c) == \E i \in 1..Len(Upper) : Upper[i] = c
IsLower(c) == \E i \in 1..Len(Lower) : Lower[i] = c

\* The byte value of a character of a file name: "." and "/" below the
\* upper-case letters, those below the lower-case letters.
Byte(c) ==
    IF IsUpper(c) THEN 64 + (CHOOSE i \in 1..Len(Upper) : Upper[i] = c)
    ELSE IF IsLower(c) THEN 96 + (CHOOSE i \in 1..Len(Lower) : Lower[i] = c)
    ELSE IF c = "." THEN 46
    ELSE 47

\* strings.ToLower(s)
ToLower(s) ==
    [i \in 1..Len(s) |->
        IF IsUpper(s[i]) THEN Lower[CHOOSE k \in 1..Len(Upper) : Upper[k] = s[i]]
        ELSE s[i]]

\* s < t on Go strings: byte-wise lexicographic order.
RECURSIVE StrLess(_, _)
StrLess(s, t) ==
    IF t = Empty THEN FALSE
    ELSE IF s = Empty THEN TRUE
    ELSE IF Head(s) = Head(t) THEN StrLess(Tail(s), Tail(t))
    ELSE Byte(Head(s)) < Byte(Head(t))

\* filepath.Join(a, b): the non-empty elements joined by a separator, cleaned;
\* the empty string when both are empty.
Join(a, b) ==
    IF a = Empty /\ b = Empty THEN Empty
    ELSE IF a = Empty THEN Clean(b)
    ELSE IF b = Empty THEN Clean(a)
    ELSE Clean(a \o Slash \o b)


----------------------------------------------------------------------------
(* Program constants *)

\* FileHandler.rootDir: the absolute, cleaned path of the shared directory
\* ("/s"), fixed at startup.
rootDir == <<"/", "s">>

\* A directory beside the shared one whose path has rootDir as a bare string
\* prefix ("/sx"), and a file in it.
siblingDir  == <<"/", "s", "x">>
siblingFile == <<"/", "s", "x", "/", "k">>

\* frontendPath = filepath.Join(absDir, "frontend", "build")
frontendPath == Join(rootDir, <<"f", "r", "o", "n", "t", "e", "n", "d", "/", "b", "u", "i", "l", "d">>)
indexHTML    == Join(frontendPath, <<"i", "n", "d", "e", "x", ".", "h", "t", "m", "l">>)

\* The URL paths and prefixes the router and the handlers compare against.
LoginPath     == <<"/", "l", "o", "g", "i", "n">>
UploadPath    == <<"/", "u", "p", "l", "o", "a", "d">>
AuthCheckPath == <<"/", "a", "p", "i", "/", "a", "u", "t", "h", "/", "c", "h", "e", "c", "k">>
ApiPrefix     == <<"/", "a", "p", "i", "/">>
ApiStrip      == <<"/", "a", "p", "i">>
ApiFilesPath  == <<"/", "a", "p", "i", "/", "f", "i", "l", "e", "s">>
FilesSub      == <<"/", "f", "i", "l", "e", "s">>
FilesPrefix   == <<"/", "f", "i", "l", "e", "s", "/">>
AuthCheckSub  == <<"/", "a", "u", "t", "h", "/", "c", "h", "e", "c", "k">>

\* The session cookie the gate issues and accepts.
SessionValue  == "authenticated"
SessionCookie ==
    [name |-> "auth_session", value |-> SessionValue, path |-> "/",
     httpOnly |-> TRUE, maxAge |-> 86400]
NoCookie == [name |-> "", value |-> "", path |-> "", httpOnly |-> FALSE, maxAge |-> 0]

----------------------------------------------------------------------------
(* State *)

VARIABLES
    password,   \* FileHandler.password and the middleware's password ("" = none)
    frontend,   \* whether StartServer found the frontend bundle at startup
    dirs,       \* the directories of the filesystem (absolute cleaned paths)
    files,      \* the regular files of the filesystem
    jar,        \* the client's cookie jar: the auth_session value it holds
    phase,      \* "idle", or "responded" while a response is on its way
    req,        \* the request being answered
    resp,       \* the response written for it
    fsOps,      \* the filesystem calls made for it: a set of <<call, path>>
    route,      \* the branch of the router that took it
    invoked,    \* whether FileHandler.ServeHTTP ran for it
    sizeArg,    \* the arguments of a call of formatFileSize: [size, isDir]
    sizeStr,    \* the string the call returned
    srcFile,    \* two concurrent uploads: the chunks of each one's file
    destFile,   \* the chunks of the file at their common destPath
    pc,         \* where each of the two handlers stands in the upload loop
    offset,     \* the write offset of each one's destFile handle, in chunks
    uploadedCount   \* each one's uploadedCount

vars == <<password, frontend, dirs, files, jar, phase, req, resp, fsOps, route,
          invoked, sizeArg, sizeStr, srcFile, destFile, pc, offset, uploadedCount>>

----------------------------------------------------------------------------
(* Filesystem *)

\* Whether path p is directory d or lies below it, component by component.
Inside(p, d) ==
    \/ p = d
    \/ d = Slash /\ HasPrefix(p, Slash)
    \/ HasPrefix(p, d \o Slash)

\* A path and all its ancestors: what os.MkdirAll walks for a cleaned
\* absolute path.
Ancestors(p) ==
    LET segs == CleanSegs(Split(p), <<>>, TRUE)
    IN  {Slash} \cup {Slash \o JoinSegs(SubSeq(segs, 1, k)) : k \in 1..Len(segs)}

\* os.Stat(p): "dir", "file" or "notexist".
Stat(p) ==
    IF p \in dirs THEN "dir" ELSE IF p \in files THEN "file" ELSE "notexist"

\* The subtree filepath.Walk visits from directory p.
Subtree(p) == {q \in dirs \cup files : Inside(q, p)}

\* The entries of directory p, as [name, isDir].
Entries(p) ==
    {[name |-> Base(q), isDir |-> q \in dirs] :
        q \in {c \in (dirs \cup files) \ {p} : Dir(c) = p}}

\* os.ReadDir(p): the entries of the directory sorted by file name.
RECURSIVE SortedByName(_)
SortedByName(es) ==
    IF es = {} THEN <<>>
    ELSE LET first == CHOOSE e \in es :
                          \A o \in es \ {e} : StrLess(e.name, o.name)
         IN  <<first>> \o SortedByName(es \ {first})

ReadDir(p) == SortedByName(Entries(p))

----------------------------------------------------------------------------
(* Listings *)

\* Seeded fault: the HTML listing compares the names without lower-casing.
htmlLessCaseSensitive(a, b) ==
    IF a.isDir # b.isDir THEN a.isDir
    ELSE StrLess(a.name, b.name)

\* The comparison serveDirectory sorts with: directories first, then the
\* names compared in lower case.
htmlLess(a, b) ==
    IF a.isDir # b.isDir THEN a.isDir
    ELSE StrLess(ToLower(a.name), ToLower(b.name))

\* The comparison handleAPIFiles sorts with: directories first, then the
\* names compared as they are.
apiLess(a, b) ==
    IF a.isDir # b.isDir THEN a.isDir
    ELSE StrLess(a.name, b.name)

Less(a, b, kind) == IF kind = "html" THEN htmlLess(a, b) ELSE apiLess(a, b)

\* sort.Slice on a short slice: insertion sort, each element moved down while
\* it is less than the one before it.
RECURSIVE Insert(_, _, _)
Insert(sorted, x, kind) ==
    IF sorted = <<>> \/ ~Less(x, sorted[Len(sorted)], kind)
    THEN Append(sorted, x)
    ELSE Append(Insert(SubSeq(sorted, 1, Len(sorted) - 1), x, kind),
                sorted[Len(sorted)])

RECURSIVE SortSlice(_, _, _)
SortSlice(list, sorted, kind) ==
    IF list = <<>> THEN sorted
    ELSE SortSlice(Tail(list), Insert(sorted, Head(list), kind), kind)

\* data.Swap(i, j), the slice indexed from 1.
Swap(data, i, j) == [data EXCEPT ![i] = data[j], ![j] = data[i]]

\* order2 of the pivot choice: the two indices in order, and 1 if they were
\* exchanged.
order2(data, a, b, kind) ==
    IF Less(data[b], data[a], kind) THEN <<b, a, 1>> ELSE <<a, b, 0>>

\* median of three: the index of the median and the number of exchanges.
median(data, a, b, c, kind) ==
    LET ab == order2(data, a, b, kind)
        bc == order2(data, ab[2], c, kind)
        last == order2(data, ab[1], bc[1], kind)
    IN  [pivot |-> last[2], swaps |-> ab[3] + bc[3] + last[3]]

\* choosePivot for a slice of 8 to 49 elements: the median of the elements at
\* one, two and three quarters.
choosePivot(data, kind) ==
    median(data, 1 + (Len(data) \div 4), 1 + 2 * (Len(data) \div 4),
           1 + 3 * (Len(data) \div 4), kind)

\* partialInsertionSort on fewer than 50 elements: reports whether the slice
\* is in order already and moves nothing.
partialInsertionSort(data, kind) ==
    \A i \in 2..Len(data) : ~Less(data[i], data[i - 1], kind)

\* The two scans of partition: i moves up past the elements less than the
\* pivot at a, j moves down past the others.
RECURSIVE ScanUp(_, _, _, _, _)
ScanUp(data, i, j, a, kind) ==
    IF i <= j /\ Less(data[i], data[a], kind) THEN ScanUp(data, i + 1, j, a, kind)
    ELSE i

RECURSIVE ScanDown(_, _, _, _, _)
ScanDown(data, i, j, a, kind) ==
    IF i <= j /\ ~Less(data[j], data[a], kind) THEN ScanDown(data, i, j - 1, a, kind)
    ELSE j

\* partition's loop: scan, exchange the pair found, go on; at the end the
\* pivot is exchanged with the element at j.
RECURSIVE PartitionLoop(_, _, _, _, _)
PartitionScanned(data, i, j, a, kind) ==
    IF i > j THEN [data |-> Swap(data, j, a), mid |-> j]
    ELSE PartitionLoop(Swap(data, i, j), i + 1, j - 1, a, kind)

PartitionUp(data, i, j, a, kind) ==
    PartitionScanned(data, i, ScanDown(data, i, j, a, kind), a, kind)

PartitionLoop(data, i, j, a, kind) ==
    PartitionUp(data, ScanUp(data, i, j, a, kind), j, a, kind)

partition(data, pivot, kind) ==
    PartitionLoop(Swap(data, 1, pivot), 2, Len(data), 1, kind)

\* The two sides of the pivot, each of 12 elements or fewer, are sorted by
\* insertion.
Partitioned(parted, kind) ==
    SortSlice(SubSeq(parted.data, 1, parted.mid - 1), <<>>, kind)
        \o <<parted.data[parted.mid]>>
        \o SortSlice(SubSeq(parted.data, parted.mid + 1, Len(parted.data)), <<>>, kind)

Pivoted(data, chosen, kind) ==
    IF chosen.swaps = 0 /\ partialInsertionSort(data, kind) THEN data
    ELSE Partitioned(partition(data, chosen.pivot, kind), kind)

\* sort.Slice: pdqsort.  A slice of 12 elements or fewer is sorted by
\* insertion; a longer one is split around a pivot first.  The directories of
\* the model hold 13 entries at most, so both sides of the pivot are short.
pdqsort(data, kind) ==
    IF Len(data) <= 12 THEN SortSlice(data, <<>>, kind)
    ELSE Pivoted(data, choosePivot(data, kind), kind)

\* Seeded fault: the JSON listing keeps the hidden entries.
SkipHiddenNone(list) == list

\* The entries handleAPIFiles keeps: those whose name does not begin with ".".
RECURSIVE SkipHidden(_)
SkipHidden(list) ==
    IF list = <<>> THEN <<>>
    ELSE IF HasPrefix(Head(list).name, Dot) THEN SkipHidden(Tail(list))
    ELSE <<Head(list)>> \o SkipHidden(Tail(list))

\* filepath.Dir of the current path, "." turned into "/".
ParentOf(path) == IF Dir(path) = Dot THEN Slash ELSE Dir(path)

\* serveDirectory: hasParent and parentPath for urlPath.
HTMLParent(urlPath) ==
    IF urlPath # Slash /\ urlPath # Empty
    THEN [hasParent |-> TRUE, parentPath |-> ParentOf(urlPath)]
    ELSE [hasParent |-> FALSE, parentPath |-> Empty]

\* handleAPIFiles: hasParent and parentPath for cleanPath.
APIParent(cleanPath) ==
    IF cleanPath # Slash
    THEN [hasParent |-> TRUE, parentPath |-> ParentOf(cleanPath)]
    ELSE [hasParent |-> FALSE, parentPath |-> Slash]

\* The listing of the HTML page and of the JSON answer for directory fsPath.
HTMLListing(fsPath) == pdqsort(ReadDir(fsPath), "html")
APIListing(fsPath)  == pdqsort(SkipHidden(ReadDir(fsPath)), "api")

----------------------------------------------------------------------------
(* formatFileSize *)

\* const unit = 1024
unit == 1024

\* An int64 size is held as its digits in base unit, lowest first, without
\* leading zeros: 1024 is <<0, 1>>.  A non-negative int64 has at most 7 of
\* them, the seventh below 8.
SizeDigits == 7

\* size * m for a small m, digit by digit with carry.
RECURSIVE MulSmall(_, _, _)
MulSmall(digits, m, carry) ==
    IF digits = <<>> THEN (IF carry = 0 THEN <<>> ELSE <<carry>>)
    ELSE LET v == Head(digits) * m + carry
         IN  <<v % unit>> \o MulSmall(Tail(digits), m, v \div unit)

\* The digit at position i, 0 beyond the last.
DigitAt(digits, i) == IF i <= Len(digits) THEN digits[i] ELSE 0

\* The number of bits of a digit: the least n with d < 2^n.
BitLen(d) == CHOOSE n \in 0..10 : d < 2^n /\ (n = 0 \/ d >= 2^(n - 1))

\* digits + c * unit^(i-1), with carry.
RECURSIVE AddAt(_, _, _)
AddAt(digits, i, c) ==
    IF c = 0 THEN digits
    ELSE IF i > Len(digits) THEN Append(digits, c)
    ELSE LET v == digits[i] + c
         IN  AddAt([digits EXCEPT ![i] = v % unit], i + 1, v \div unit)

\* float64(size) with s > 0 low bits too many for the 53-bit significand:
\* they are rounded away, to the nearest and on a tie to the even neighbour.
Rounded(digits, s) ==
    LET a == s \div 10
        b == s % 10
        w == digits[a + 1]
        low == w % 2^b
        odd == (w \div 2^b) % 2 = 1
        below == \E i \in 1..a : digits[i] # 0
        under == \E i \in 1..(a - 1) : digits[i] # 0
        more == IF b > 0 THEN low > 2^(b - 1) \/ (low = 2^(b - 1) /\ below)
                ELSE digits[a] > unit \div 2 \/ (digits[a] = unit \div 2 /\ under)
        tie == IF b > 0 THEN low = 2^(b - 1) /\ ~below
               ELSE digits[a] = unit \div 2 /\ ~under
        cut == [i \in 1..Len(digits) |->
                   IF i <= a THEN 0 ELSE IF i = a + 1 THEN w - low ELSE digits[i]]
    IN  IF more \/ (tie /\ odd) THEN AddAt(cut, a + 1, 2^b) ELSE cut

\* float64(size): exact up to 53 bits.
Float64(digits) ==
    LET bits == 10 * (Len(digits) - 1) + BitLen(digits[Len(digits)])
    IN  IF bits <= 53 THEN digits ELSE Rounded(digits, bits - 53)

\* "%.1f" of float64(size)/float64(div) for div = unit^k, as the number of
\* tenths printed: the quotient (exact, div being a power of two) rounded
\* to one decimal, an exact half to the even tenth.
Tenths(size, k) ==
    LET p == MulSmall(Float64(size), 10, 0)
        int == DigitAt(p, k + 1) + unit * DigitAt(p, k + 2)
        top == DigitAt(p, k)
        rest == \E i \in 1..(k - 1) : DigitAt(p, i) # 0
        half == unit \div 2
        up == \/ top > half
              \/ top = half /\ rest
              \/ top = half /\ ~rest /\ int % 2 = 1
    IN  IF up THEN int + 1 ELSE int

\* Seeded fault: the loop runs while n > unit, not n >= unit.
RECURSIVE SizeLoopStrict(_, _)
SizeLoopStrict(n, exp) ==
    IF Len(n) > 1 /\ n # <<0, 1>> THEN SizeLoopStrict(Tail(n), exp + 1) ELSE exp

\* for n := size / unit; n >= unit; n /= unit { div *= unit; exp++ }
RECURSIVE SizeLoop(_, _)
SizeLoop(n, exp) ==
    IF Len(n) > 1 THEN SizeLoop(Tail(n), exp + 1) ELSE exp

\* "KMGTPE"[exp]; an index past the string panics.
UnitLetters == <<"K", "M", "G", "T", "P", "E">>
UnitLetter(exp) == IF exp + 1 <= Len(UnitLetters) THEN UnitLetters[exp + 1] ELSE "panic"

\* The string returned: the placeholder, "%d B", or "%.1f %cB" given as the
\* whole part, the tenth and the unit.
SizeText(whole, decimals, tenth, u) ==
    [whole |-> whole, decimals |-> decimals, tenth |-> tenth, unit |-> u]

NoSizeText == SizeText(0, 0, 0, "")

Scaled(size, exp) ==
    SizeText(Tenths(size, exp + 1) \div 10, 1, Tenths(size, exp + 1) % 10,
             UnitLetter(exp) \o "B")

formatFileSize(size, isDir) ==
    IF isDir THEN SizeText(0, 0, 0, "-")
    ELSE IF Len(size) <= 1 THEN SizeText(size[1], 0, 0, "B")
    ELSE Scaled(size, SizeLoop(Tail(size), 0))

----------------------------------------------------------------------------
(* Requests and responses *)

NoSession == [present |-> FALSE, value |-> ""]
NoBasic   == [ok |-> FALSE, user |-> "", pass |-> ""]
NoForm    == [parses |-> TRUE, password |-> "", redirect |-> Empty,
              directory |-> Empty, files |-> <<>>]

\* What goes wrong on the disk while a request is served: the file at path
\* is gone when the walk comes to it ("lstat"), cannot be opened ("open"), or
\* cannot be read to its end ("copy").
NoFault == [path |-> Empty, kind |-> ""]

\* A request: method, URL path, the query parameters `path` and `download`,
\* the auth_session cookie, the Basic-Auth header and the form; with it, what
\* goes wrong on the disk while it is served.
Request(method, path, qpath, download, cookie, basic, form) ==
    [method |-> method, path |-> path, qpath |-> qpath, download |-> download,
     cookie |-> cookie, basic |-> basic, form |-> form, fault |-> NoFault]

NoReq == Request("", Empty, Empty, "", NoSession, NoBasic, NoForm)

\* A response: status, kind of body, Set-Cookie, Location, the count in the
\* upload redirect's ?uploaded=, Content-Disposition: attachment, the
\* entries of a listing in the order they are rendered, and the entries of
\* a zip archive in the order they are written, and the current path, the
\* has-parent flag and the parent path of a listing.
Response(status, body) ==
    [status |-> status, body |-> body, setCookie |-> NoCookie,
     location |-> Empty, uploaded |-> 0, attachment |-> FALSE,
     listing |-> <<>>, zip |-> <<>>,
     currentPath |-> Empty, hasParent |-> FALSE, parentPath |-> Empty]

NoResp == Response(0, "")

\* What handling a request produced: the response, the filesystem calls
\* made, and the filesystem afterwards.
Outcome(r, ops, d, f) == [resp |-> r, ops |-> ops, dirs |-> d, files |-> f]

\* A handler that only answers.
Answer(r) == Outcome(r, {}, dirs, files)

\* http.Redirect(w, r, url, code) for a url without scheme, host or query: a
\* relative url is made absolute against the directory of the request path,
\* the path is cleaned, and a trailing slash is kept.
RedirectLocation(url, reqPath) ==
    LET olddir == IF HasSuffix(reqPath, Slash) THEN reqPath
                  ELSE LET segs == Split(reqPath)
                       IN  JoinSegs(SubSeq(segs, 1, Len(segs) - 1)) \o Slash
        abs == IF url = Empty \/ Head(url) # Sep THEN olddir \o url ELSE url
        cleaned == Clean(abs)
    IN  IF HasSuffix(abs, Slash) /\ ~HasSuffix(cleaned, Slash)
        THEN cleaned \o Slash
        ELSE cleaned

Redirect(url, reqPath, code) ==
    [Response(code, "redirect") EXCEPT !.location = RedirectLocation(url, reqPath)]

\* The page data of a listing: the entries and the paths around them.
PageData(body, entries, cleanPath, parent) ==
    [Response(200, body) EXCEPT !.listing = entries,
                                !.currentPath = cleanPath,
                                !.hasParent = parent.hasParent,
                                !.parentPath = parent.parentPath]

----------------------------------------------------------------------------
(* FileHandler: path resolution *)

\* Seeded fault: the request path is used as it came, without filepath.Clean.
CleanRequestPathSkipped(requestPath) == requestPath

\* requestPath -> cleanPath: filepath.Clean, with "." turned into "/".
CleanRequestPath(requestPath) ==
    LET cleanPath == Clean(requestPath)
    IN  IF cleanPath = Dot THEN Slash ELSE cleanPath

\* fsPath := filepath.Join(fh.rootDir, strings.TrimPrefix(cleanPath, "/"))
FsPath(cleanPath) == Join(rootDir, TrimPrefix(cleanPath, Slash))

\* The security check: strings.HasPrefix(fsPath, fh.rootDir)
WithinRoot(fsPath) == HasPrefix(fsPath, rootDir)

----------------------------------------------------------------------------
(* FileHandler: the path browser *)

\* Seeded fault: any non-empty `download` parameter forces the attachment.
serveFileAttachAnyDownload(r, fsPath) ==
    Outcome([Response(200, "file") EXCEPT !.attachment = (r.download # "")],
            {<<"Stat", fsPath>>, <<"Open", fsPath>>}, dirs, files)

\* serveFile: Content-Disposition: attachment only for ?download=1, then the
\* file is opened and sent.
serveFile(r, fsPath) ==
    Outcome([Response(200, "file") EXCEPT !.attachment = (r.download = "1")],
            {<<"Stat", fsPath>>, <<"Open", fsPath>>}, dirs, files)

\* serveDirectory: one ReadDir, then the HTML listing.
serveDirectory(r, fsPath) ==
    Outcome(PageData("html_listing", HTMLListing(fsPath), CleanRequestPath(r.path),
                     HTMLParent(CleanRequestPath(r.path))),
            {<<"Stat", fsPath>>, <<"ReadDir", fsPath>>}, dirs, files)

\* filepath.Rel(basepath, targpath) for a target below the base.
Rel(basepath, targpath) ==
    TrimPrefix(TrimPrefix(targpath, basepath), Slash)

\* A zip entry: its name, whether it is a directory entry, and the file whose
\* bytes io.Copy wrote into it (none for a directory entry).
ZipEntry(name, isDir, from) == [name |-> name, isDir |-> isDir, from |-> from]

\* Seeded fault: the walk writes no entry for a directory.
RECURSIVE WalkListFilesOnly(_, _, _)
WalkListFilesOnly(list, dirPath, fsPath) ==
    IF list = <<>> THEN <<>>
    ELSE (IF Head(list).isDir
          THEN WalkListFilesOnly(ReadDir(Join(dirPath, Head(list).name)),
                                 Join(dirPath, Head(list).name), fsPath)
          ELSE <<ZipEntry(Rel(fsPath, Join(dirPath, Head(list).name)), FALSE,
                          Join(dirPath, Head(list).name))>>)
         \o WalkListFilesOnly(Tail(list), dirPath, fsPath)

\* filepath.Walk below fsPath with the callback of serveDirectoryAsZip: the
\* names of a directory in lexical order, a directory entry (relative path
\* and "/") before the walk of its contents, a file entry with the file's
\* bytes.
RECURSIVE WalkList(_, _, _)
WalkList(list, dirPath, fsPath) ==
    IF list = <<>> THEN <<>>
    ELSE (IF Head(list).isDir
          THEN <<ZipEntry(Rel(fsPath, Join(dirPath, Head(list).name)) \o Slash,
                          TRUE, Empty)>>
               \o WalkList(ReadDir(Join(dirPath, Head(list).name)),
                           Join(dirPath, Head(list).name), fsPath)
          ELSE <<ZipEntry(Rel(fsPath, Join(dirPath, Head(list).name)), FALSE,
                          Join(dirPath, Head(list).name))>>)
         \o WalkList(Tail(list), dirPath, fsPath)

\* Seeded fault: the walked root is not skipped and gets the entry "./".
ZipEntriesWithRoot(fsPath) ==
    <<ZipEntry(Dot \o Slash, TRUE, Empty)>> \o WalkList(ReadDir(fsPath), fsPath, fsPath)

\* The archive written for directory fsPath: the walk, the root itself
\* skipped.
ZipEntries(fsPath) == WalkList(ReadDir(fsPath), fsPath, fsPath)

\* Seeded fault: the walk passes over the entry that failed and goes on.
RECURSIVE WalkUntilSkips(_, _)
WalkUntilSkips(zip, fault) ==
    IF zip = <<>> THEN <<>>
    ELSE IF Head(zip).from = fault.path THEN WalkUntilSkips(Tail(zip), fault)
    ELSE <<Head(zip)>> \o WalkUntilSkips(Tail(zip), fault)

\* The walk with a callback that returns an error at the file fault.path:
\* filepath.Walk stops there.  The entries written before stay; the failing
\* file has no entry when the walk itself reports the error, and an entry
\* without the file's bytes when zipWriter.Create came before the failing
\* os.Open or io.Copy.
RECURSIVE WalkUntil(_, _)
WalkUntil(zip, fault) ==
    IF zip = <<>> THEN <<>>
    ELSE IF Head(zip).from = fault.path
         THEN (IF fault.kind = "lstat" THEN <<>>
               ELSE <<ZipEntry(Head(zip).name, FALSE, Empty)>>)
    ELSE <<Head(zip)>> \o WalkUntil(Tail(zip), fault)

\* serveDirectoryAsZip when the walk fails: the error is logged and the handler
\* returns; the deferred zipWriter.Close ends the archive as it stands.
ZipAborted(r, fsPath, zip) ==
    Outcome([Response(200, "zip_truncated") EXCEPT !.attachment = TRUE, !.zip = zip],
            {<<"Stat", fsPath>>}
                \cup {<<"Walk", q>> : q \in {fsPath, r.fault.path}}
                \cup {<<"Walk", Join(fsPath, zip[i].name)>> : i \in 1..Len(zip)}
                \cup {<<"Open", zip[i].from>> : i \in {k \in 1..Len(zip) : zip[k].from # Empty}}
                \cup (IF r.fault.kind = "lstat" THEN {} ELSE {<<"Open", r.fault.path>>}),
            dirs, files)

\* serveDirectoryAsZip: the walk visits the subtree and opens every file.
serveDirectoryAsZip(r, fsPath) ==
    IF r.fault.kind # "" /\ r.fault.path \in Subtree(fsPath) \cap files
    THEN ZipAborted(r, fsPath, WalkUntil(ZipEntries(fsPath), r.fault))
    ELSE Outcome([Response(200, "zip") EXCEPT !.attachment = TRUE,
                                              !.zip = ZipEntries(fsPath)],
                 {<<"Stat", fsPath>>}
                     \cup {<<"Walk", q>> : q \in Subtree(fsPath)}
                     \cup {<<"Open", q>> : q \in Subtree(fsPath) \cap files},
                 dirs, files)

\* The last branch of ServeHTTP once the URL path is resolved to fsPath: the
\* security check, os.Stat, and the choice among zip, file and listing.
BrowseResolved(r, fsPath, stat) ==
    IF ~WithinRoot(fsPath) THEN Answer(Response(403, "error"))
    ELSE IF stat = "notexist"
         THEN Outcome(Response(404, "error"), {<<"Stat", fsPath>>}, dirs, files)
    ELSE IF stat = "dir" /\ r.download = "zip" THEN serveDirectoryAsZip(r, fsPath)
    ELSE IF stat # "dir" THEN serveFile(r, fsPath)
    ELSE serveDirectory(r, fsPath)

\* The last branch of ServeHTTP: resolve the URL path and serve what is there.
BrowsePath(r, fsPath) == BrowseResolved(r, fsPath, Stat(fsPath))

Browse(r) ==
    BrowsePath(r, FsPath(CleanRequestPath(IF r.path = Empty THEN Slash ELSE r.path)))

----------------------------------------------------------------------------
(* FileHandler: the JSON API *)

\* handleAPIFiles once the `path` parameter is resolved to fsPath: the
\* security check, os.Stat, and the listing of a directory.
APIFilesResolved(r, fsPath, stat) ==
    IF ~WithinRoot(fsPath) THEN Answer(Response(403, "error"))
    ELSE IF stat = "notexist"
         THEN Outcome(Response(404, "error"), {<<"Stat", fsPath>>}, dirs, files)
    ELSE IF stat # "dir"
         THEN Outcome(Response(400, "error"), {<<"Stat", fsPath>>}, dirs, files)
    ELSE Outcome(PageData("json_listing", APIListing(fsPath),
                          CleanRequestPath(IF r.qpath = Empty THEN Slash ELSE r.qpath),
                          APIParent(CleanRequestPath(IF r.qpath = Empty THEN Slash
                                                     ELSE r.qpath))),
                 {<<"Stat", fsPath>>, <<"ReadDir", fsPath>>}, dirs, files)

APIFilesPath(r, fsPath) == APIFilesResolved(r, fsPath, Stat(fsPath))

handleAPIFiles(r) ==
    APIFilesPath(r, FsPath(CleanRequestPath(IF r.qpath = Empty THEN Slash ELSE r.qpath)))

\* handleAPI's switch on the path with "/api" trimmed off.
APIBranch(path) ==
    IF path = FilesSub \/ HasPrefix(path, FilesPrefix) THEN "files"
    ELSE IF path = AuthCheckSub THEN "authcheck"
    ELSE "notfound"

API(r, branch) ==
    IF branch = "files" THEN handleAPIFiles(r)
    ELSE IF branch = "authcheck" THEN Answer(Response(200, "auth_true"))
    ELSE Answer(Response(404, "error"))

handleAPI(r) == API(r, APIBranch(TrimPrefix(r.path, ApiStrip)))

----------------------------------------------------------------------------
(* FileHandler: upload *)

\* Seeded fault: a destination whose copy failed is left in place.
UploadOneKeepsPartial(fh, destPath, acc) ==
    IF fh.fault = "open" THEN acc
    ELSE IF fh.fault = "create" \/ destPath \in acc.dirs
         THEN [acc EXCEPT !.ops = @ \cup {<<"Create", destPath>>}]
    ELSE IF fh.fault = "copy"
         THEN [acc EXCEPT !.ops = @ \cup {<<"Create", destPath>>},
                          !.files = @ \cup {destPath}]
    ELSE [acc EXCEPT !.ops = @ \cup {<<"Create", destPath>>},
                     !.files = @ \cup {destPath},
                     !.count = @ + 1]

\* One round of the loop over the uploaded files.  A file whose Open, Create
\* or Copy fails is skipped; a failed copy removes the destination.  Create
\* fails on a destination that is a directory.  acc = [dirs, files, count, ops].
UploadOne(fh, destPath, acc) ==
    IF fh.fault = "open" THEN acc
    ELSE IF fh.fault = "create" \/ destPath \in acc.dirs
         THEN [acc EXCEPT !.ops = @ \cup {<<"Create", destPath>>}]
    ELSE IF fh.fault = "copy"
         THEN [acc EXCEPT !.ops = @ \cup {<<"Create", destPath>>, <<"Remove", destPath>>},
                          !.files = @ \ {destPath}]
    ELSE [acc EXCEPT !.ops = @ \cup {<<"Create", destPath>>},
                     !.files = @ \cup {destPath},
                     !.count = @ + 1]

RECURSIVE UploadLoop(_, _, _)
UploadLoop(list, fsDir, acc) ==
    IF list = <<>> THEN acc
    ELSE UploadLoop(Tail(list), fsDir,
                    UploadOne(Head(list), Join(fsDir, Head(list).name), acc))

\* The redirect that ends an upload: back to the directory, with the count.
UploadDone(r, cleanDir, done) ==
    Outcome([Redirect(cleanDir, r.path, 303) EXCEPT !.uploaded = done.count],
            done.ops, done.dirs, done.files)

\* Seeded fault: the directory is created before the security check.
UploadResolvedMkdirFirst(r, cleanDir, fsDir, made) ==
    IF ~r.form.parses THEN Answer(Response(400, "error"))
    ELSE IF made \cap files # {}
         THEN Outcome(Response(500, "error"), {<<"MkdirAll", fsDir>>}, dirs, files)
    ELSE IF ~WithinRoot(fsDir)
         THEN Outcome(Response(403, "error"), {<<"MkdirAll", fsDir>>},
                      dirs \cup made, files)
    ELSE UploadDone(r, cleanDir,
             UploadLoop(r.form.files, fsDir,
                        [dirs |-> dirs \cup made, files |-> files,
                         count |-> 0, ops |-> {<<"MkdirAll", fsDir>>}]))

\* handleUpload once the `directory` field is cleaned to cleanDir and
\* resolved to fsDir: the security check, os.MkdirAll (which fails on an
\* ancestor that is a regular file), and the loop; made is fsDir with its
\* ancestors.
UploadResolved(r, cleanDir, fsDir, made) ==
    IF ~r.form.parses THEN Answer(Response(400, "error"))
    ELSE IF ~WithinRoot(fsDir) THEN Answer(Response(403, "error"))
    ELSE IF made \cap files # {}
         THEN Outcome(Response(500, "error"), {<<"MkdirAll", fsDir>>}, dirs, files)
    ELSE UploadDone(r, cleanDir,
             UploadLoop(r.form.files, fsDir,
                        [dirs |-> dirs \cup made, files |-> files,
                         count |-> 0, ops |-> {<<"MkdirAll", fsDir>>}]))

UploadDir(r, cleanDir, fsDir) == UploadResolved(r, cleanDir, fsDir, Ancestors(fsDir))

UploadClean(r, cleanDir) == UploadDir(r, cleanDir, FsPath(cleanDir))

handleUpload(r) ==
    UploadClean(r, CleanRequestPath(IF r.form.directory = Empty THEN Slash
                                    ELSE r.form.directory))

----------------------------------------------------------------------------
(* FileHandler.ServeHTTP *)

\* Seeded fault: any auth_session cookie is accepted, whatever its value.
HasSessionAnyValue(r) == r.cookie.present

\* Seeded fault: the gate compares the cookie with a value it never issues.
HasSessionOtherValue(r) == r.cookie.present /\ r.cookie.value = "1"

\* The session-cookie test shared by the auth probe and the middleware.
HasSession(r) == r.cookie.present /\ r.cookie.value = SessionValue

\* Seeded fault: Basic-Auth also wants the username admin.
HasBasicChecksUser(r) == r.basic.ok /\ r.basic.user = "admin" /\ r.basic.pass = password

\* The Basic-Auth test: the header is present and its password matches.
HasBasic(r) == r.basic.ok /\ r.basic.pass = password

\* /api/auth/check: the flag it reports.
isAuthenticated(r) ==
    IF password = "" THEN TRUE
    ELSE IF HasSession(r) THEN TRUE
    ELSE HasBasic(r)

\* The dispatch of ServeHTTP, in the order of the code.
\* Seeded fault: every request to /upload is taken as an upload, whatever its
\* method.
ServeBranchAnyUpload(r) ==
    IF r.method = "OPTIONS" THEN "options"
    ELSE IF r.path = AuthCheckPath THEN "authcheck"
    ELSE IF HasPrefix(r.path, ApiPrefix) THEN "api"
    ELSE IF r.path = UploadPath THEN "upload"
    ELSE "browse"

\* The order of the branches of FileHandler.ServeHTTP.
ServeBranch(r) ==
    IF r.method = "OPTIONS" THEN "options"
    ELSE IF r.path = AuthCheckPath THEN "authcheck"
    ELSE IF HasPrefix(r.path, ApiPrefix) THEN "api"
    ELSE IF r.method = "POST" /\ r.path = UploadPath THEN "upload"
    ELSE "browse"

Serve(r, branch) ==
    IF branch = "options" THEN Answer(Response(200, "empty"))
    ELSE IF branch = "authcheck"
         THEN Answer(Response(200, IF isAuthenticated(r) THEN "auth_true"
                                                         ELSE "auth_false"))
    ELSE IF branch = "api" THEN handleAPI(r)
    ELSE IF branch = "upload" THEN handleUpload(r)
    ELSE Browse(r)

ServeHTTP(r) == Serve(r, ServeBranch(r))

----------------------------------------------------------------------------
(* The auth gate *)

\* What the router reports besides the handler's outcome: the branch that
\* took the request and whether FileHandler.ServeHTTP ran.
Routed(out, branch, ran) ==
    [resp |-> out.resp, ops |-> out.ops, dirs |-> out.dirs, files |-> out.files,
     route |-> branch, invoked |-> ran]

\* showLoginForm: 401 and the login page, with the error message when given.
showLoginForm(errorMsg) ==
    Response(401, IF errorMsg # "" THEN "login_form_error" ELSE "login_form")

\* Seeded fault: a successful login always redirects to /, whatever the
\* form's redirect field.
LoginToRoot(r) ==
    IF r.form.password = password
    THEN [Redirect(Slash, r.path, 303) EXCEPT !.setCookie = SessionCookie]
    ELSE showLoginForm("Invalid password. Please try again.")

\* Seeded fault: the cookie is set before the password is compared.
LoginCookieFirst(r) ==
    IF r.form.password = password
    THEN [Redirect(IF r.form.redirect = Empty THEN Slash ELSE r.form.redirect,
                   r.path, 303)
              EXCEPT !.setCookie = SessionCookie]
    ELSE [showLoginForm("Invalid password. Please try again.")
              EXCEPT !.setCookie = SessionCookie]

\* The login branch: the submitted password against the configured one.
Login(r) ==
    IF r.form.password = password
    THEN [Redirect(IF r.form.redirect = Empty THEN Slash ELSE r.form.redirect,
                   r.path, 303)
              EXCEPT !.setCookie = SessionCookie]
    ELSE showLoginForm("Invalid password. Please try again.")

\* Seeded fault: the gate is installed even when no password is configured.
GateDecisionNoOpen(r) ==
    IF r.method = "POST" /\ r.path = LoginPath THEN "login"
    ELSE IF HasSession(r) THEN "pass"
    ELSE IF HasBasic(r) THEN "pass"
    ELSE "form"

\* Seeded fault: the gate keeps sessions: the cookie counts only once a login
\* has succeeded and its cookie was handed out.
GateDecisionSessionStore(r) ==
    IF password = "" THEN "open"
    ELSE IF r.method = "POST" /\ r.path = LoginPath THEN "login"
    ELSE IF HasSession(r) /\ jar.present THEN "pass"
    ELSE IF HasBasic(r) THEN "pass"
    ELSE "form"

\* Seeded fault: the session cookie and Basic-Auth are looked at before the
\* login POST.
GateDecisionCredentialsFirst(r) ==
    IF password = "" THEN "open"
    ELSE IF HasSession(r) THEN "pass"
    ELSE IF HasBasic(r) THEN "pass"
    ELSE IF r.method = "POST" /\ r.path = LoginPath THEN "login"
    ELSE "form"

\* The order in which the middleware classifies a request: no password, the
\* login POST, the session cookie, Basic-Auth, and otherwise the login form.
GateDecision(r) ==
    IF password = "" THEN "open"
    ELSE IF r.method = "POST" /\ r.path = LoginPath THEN "login"
    ELSE IF HasSession(r) THEN "pass"
    ELSE IF HasBasic(r) THEN "pass"
    ELSE "form"

\* applyAuthMiddleware(handler, password).ServeHTTP
Gate(r, decision) ==
    IF decision = "login" THEN Routed(Answer(Login(r)), "gate", FALSE)
    ELSE IF decision = "form" THEN Routed(Answer(showLoginForm("")), "gate", FALSE)
    ELSE Routed(ServeHTTP(r), "gate", TRUE)

applyAuthMiddleware(r) == Gate(r, GateDecision(r))

----------------------------------------------------------------------------
(* StartServer: the router *)

\* Seeded fault: the default branch always hands the request to the bundle's
\* file server, without the index.html fallback.
ServeBundleNoFallback(r) ==
    Outcome(Response(200, "bundle"),
            {<<"Stat", Join(frontendPath, r.path)>>}, dirs, files)

\* The default branch with the bundle present: index.html for a path other
\* than / that is no file of the bundle, otherwise the bundle's file server.
\* The body names which of the two the request was handed to.
ServeBundle(r) ==
    LET statPath == Join(frontendPath, r.path)
        stat == {<<"Stat", statPath>>}
    IN  IF Stat(statPath) = "notexist" /\ r.path # Slash
        THEN Outcome(Response(200, "index_html"),
                     stat \cup {<<"Open", indexHTML>>}, dirs, files)
        ELSE Outcome(Response(200, "bundle"), stat, dirs, files)

\* Seeded fault: /api/ goes straight to the handler in both routing modes.
MuxBranchApiOpen(r) ==
    IF HasPrefix(r.path, ApiPrefix) THEN "api"
    ELSE IF ~frontend THEN "gate"
    ELSE IF r.path = LoginPath THEN "gate"
    ELSE IF r.path = UploadPath THEN "gate"
    ELSE IF HasPrefix(r.path, FilesPrefix) THEN "gate"
    ELSE "bundle"

\* mux: with the bundle, /api/ goes straight to the handler, /login, /upload
\* and /files/ through the gate, the rest to the bundle; without it,
\* everything goes through the gate.
MuxBranch(r) ==
    IF ~frontend THEN "gate"
    ELSE IF HasPrefix(r.path, ApiPrefix) THEN "api"
    ELSE IF r.path = LoginPath THEN "gate"
    ELSE IF r.path = UploadPath THEN "gate"
    ELSE IF HasPrefix(r.path, FilesPrefix) THEN "gate"
    ELSE "bundle"

Dispatch(r, branch) ==
    IF branch = "gate" THEN applyAuthMiddleware(r)
    ELSE IF branch = "api" THEN Routed(ServeHTTP(r), "api", TRUE)
    ELSE Routed(ServeBundle(r), "bundle", FALSE)

Mux(r) == Dispatch(r, MuxBranch(r))

----------------------------------------------------------------------------
(* Inputs *)

\* The longest run of path segments in a generated request path.
MaxSegs == 3

\* The most chunks io.Copy writes for one file of two concurrent uploads.
MaxChunks == 3

\* The most files in one generated upload.
MaxFiles == 2

\* The segments generated paths are made of: "..", the directory a, the
\* sibling's name sx, and the file f.
PathSegs == {DotDot, <<"a">>, <<"s", "x">>, <<"f">>}

SegSeqs == UNION {[1..k -> PathSegs] : k \in 0..MaxSegs}

\* URL paths: always rooted.  Besides the generated ones, two that are not
\* clean and the two empty directories.
UrlPaths == {Slash \o JoinSegs(q) : q \in SegSeqs}
              \cup {<<"/", ".", "/", "a">>, <<"/", "a", "/", "/", "f">>,
                    <<"/", "a", "/", "e">>, <<"/", "Z">>}

\* Values of a query parameter or form field naming a path: rooted or not.
FieldPaths == UrlPaths \cup {JoinSegs(q) : q \in SegSeqs}

\* The `download` query parameter.
Downloads == {"", "1", "zip", "true"}

\* The paths the router and the handlers single out, and a few others.
RoutePaths ==
    {Slash, <<"/", "a">>, LoginPath, UploadPath, AuthCheckPath, ApiFilesPath,
     <<"/", "a", "p", "i", "/", "x">>, <<"/", "f", "i", "l", "e", "s", "/", "a">>,
     <<"/", "a", "p", "i", "/", "f", "i", "l", "e", "s", "/", "x">>, <<"/", "i", "n", "d", "e", "x", ".", "h", "t", "m", "l">>}

Methods == {"GET", "POST", "OPTIONS"}

Passwords == {"", "pw"}

Cookies == {NoSession, [present |-> TRUE, value |-> SessionValue],
            [present |-> TRUE, value |-> "stale"]}

BasicAuths == {NoBasic, [ok |-> TRUE, user |-> "u", pass |-> "pw"],
               [ok |-> TRUE, user |-> "u", pass |-> "bad"],
               [ok |-> TRUE, user |-> "admin", pass |-> "pw"],
               [ok |-> TRUE, user |-> "pw", pass |-> "bad"]}

\* Submitted login passwords and redirect targets.
LoginPasswords == {"", "pw", "bad"}
LoginRedirects == {Empty, <<"/", "a">>, <<"/", "a", "/">>, <<"a", "/", ".", ".", "/", "f">>}
LoginCredentials ==
    {<<NoSession, NoBasic>>,
     <<[present |-> TRUE, value |-> SessionValue], NoBasic>>,
     <<NoSession, [ok |-> TRUE, user |-> "u", pass |-> "pw"]>>}

\* The `directory` field of an upload: the root, a subdirectory, a new
\* directory, a regular file, the parent, and the sibling reached three ways.
UploadDirs ==
    {Empty, <<"a">>, <<"/", ".", ".", "/", "s", "x">>, <<"f">>, <<".", ".">>, <<".", ".", "/", "s", "x", "/", "n">>}

\* Uploaded files: the name multipart hands over is a base name.
UploadFiles == {[name |-> <<"f">>, fault |-> "none"],
                [name |-> DotDot, fault |-> "none"]}
FileLists == UNION {[1..k -> UploadFiles] : k \in 0..MaxFiles}

\* Uploaded files of a batch in which opening a part, creating the
\* destination or copying into it may fail.
BatchFiles == {[name |-> <<"f">>, fault |-> "none"],
               [name |-> <<"f">>, fault |-> "copy"],
               [name |-> <<"g">>, fault |-> "none"],
               [name |-> <<"g">>, fault |-> "create"],
               [name |-> <<"g">>, fault |-> "open"]}
BatchLists == UNION {[1..k -> BatchFiles] : k \in 1..MaxFiles}

----------------------------------------------------------------------------
(* Two uploads at once *)

\* net/http runs every request in a goroutine of its own; two of them are in
\* handleUpload's loop with the same destPath.  The file each one sends is
\* the sequence of the chunks io.Copy writes one by one, chunk i of uploader
\* u being <<u, i>>.
Uploaders == {1, 2}

\* No upload is under way.
NoUploadsRunning ==
    /\ srcFile = [u \in Uploaders |-> <<>>]
    /\ destFile = <<>>
    /\ pc = [u \in Uploaders |-> "done"]
    /\ offset = [u \in Uploaders |-> 0]
    /\ uploadedCount = [u \in Uploaders |-> 0]

\* A write of chunk at offset off of the file: over what is there, or past
\* the end with chunks of zeros, <<0, 0>>, between.
WriteAt(file, off, chunk) ==
    IF off < Len(file) THEN [file EXCEPT ![off + 1] = chunk]
    ELSE file \o [i \in 1..(off - Len(file)) |-> <<0, 0>>] \o <<chunk>>


\* The tree at startup: / holds the shared directory /s and its sibling /sx
\* (a file k).  /s holds the directories a (a file g and an empty directory
\* e) and Z (empty) and the files f, b.txt, C.txt and .h; the bundle, when
\* there, is /s/frontend/build with index.html.
BaseDirs  == {Slash, rootDir, Join(rootDir, <<"a">>), Join(rootDir, <<"a", "/", "e">>),
              Join(rootDir, <<"Z">>), siblingDir}
BaseFiles == {Join(rootDir, <<"f">>), Join(rootDir, <<"a", "/", "g">>),
              Join(rootDir, <<"b", ".", "t", "x", "t">>),
              Join(rootDir, <<"C", ".", "t", "x", "t">>),
              Join(rootDir, <<".", "h">>), siblingFile}
BundleDirs  == Ancestors(frontendPath)
BundleFiles == {indexHTML}

Init ==
    /\ password \in Passwords
    /\ \E bundle \in BOOLEAN :
          /\ dirs = BaseDirs \cup (IF bundle THEN BundleDirs ELSE {})
          /\ files = BaseFiles \cup (IF bundle THEN BundleFiles ELSE {})
          /\ frontend = bundle
    /\ jar = NoSession
    /\ phase = "idle"
    /\ req = NoReq
    /\ resp = NoResp
    /\ fsOps = {}
    /\ route = ""
    /\ invoked = FALSE
    /\ sizeArg = [size |-> <<0>>, isDir |-> TRUE]
    /\ sizeStr = NoSizeText
    /\ NoUploadsRunning

\* The server has answered request r with outcome out.
Answered(r, out) ==
    /\ phase' = "responded"
    /\ req' = r
    /\ resp' = out.resp
    /\ fsOps' = out.ops
    /\ dirs' = out.dirs
    /\ files' = out.files
    /\ route' = out.route
    /\ invoked' = out.invoked
    /\ UNCHANGED <<password, frontend, jar, sizeArg, sizeStr>>
    /\ UNCHANGED <<srcFile, destFile, pc, offset, uploadedCount>>

\* The server takes request r and answers it.
Handle(r) ==
    /\ phase = "idle"
    /\ Answered(r, Mux(r))

\* The browser asks for a path, sending the cookie it holds.
GetPath ==
    \E p \in UrlPaths : \E d \in Downloads :
        Handle(Request("GET", p, Empty, d, jar, NoBasic, NoForm))

\* The frontend lists a directory through the API.
GetAPIFiles ==
    \E q \in FieldPaths :
        Handle(Request("GET", ApiFilesPath, q, "", jar, NoBasic, NoForm))

\* An upload form is posted: one that does not parse, or a directory and files.
PostUpload ==
    \E d \in UploadDirs : \E l \in FileLists : \E ok \in BOOLEAN :
        /\ ~ok => (d = Empty /\ l = <<>>)
        /\ Handle(Request("POST", UploadPath, Empty, "", jar, NoBasic,
                          [NoForm EXCEPT !.parses = ok, !.directory = d, !.files = l]))

\* Files are dropped on the listing of /a, and some of them fail.
PostUploadBatch ==
    \E l \in BatchLists :
        Handle(Request("POST", UploadPath, Empty, "", jar, NoBasic,
                       [NoForm EXCEPT !.directory = <<"/", "a">>, !.files = l]))

\* The login form is posted.
PostLogin ==
    \E pw \in LoginPasswords : \E to \in LoginRedirects : \E c \in LoginCredentials :
        Handle(Request("POST", LoginPath, Empty, "", c[1], c[2],
                       [NoForm EXCEPT !.password = pw, !.redirect = to]))

\* A directory is downloaded as a zip while one of the shared files fails.
GetZipFailing ==
    \E p \in {Slash, <<"/", "a">>} : \E q \in BaseFiles :
      \E k \in {"lstat", "open", "copy"} :
        Handle([Request("GET", p, Empty, "zip", jar, NoBasic, NoForm)
                   EXCEPT !.fault = [path |-> q, kind |-> k]])

\* Any client sends any method to a route with any credentials.
AnyRequest ==
    \E m \in Methods : \E p \in RoutePaths : \E c \in Cookies : \E b \in BasicAuths :
        Handle(Request(m, p, Empty, "", c, b, NoForm))

\* The client receives the response and keeps the cookie it sets.
Deliver ==
    /\ phase = "responded"
    /\ phase' = "idle"
    /\ jar' = IF resp.setCookie.name = "auth_session"
              THEN [present |-> TRUE, value |-> resp.setCookie.value]
              ELSE jar
    /\ req' = NoReq
    /\ resp' = NoResp
    /\ fsOps' = {}
    /\ route' = ""
    /\ invoked' = FALSE
    /\ UNCHANGED <<password, frontend, dirs, files, sizeArg, sizeStr>>
    /\ UNCHANGED <<srcFile, destFile, pc, offset, uploadedCount>>

Next ==
    \/ GetPath
    \/ GetAPIFiles
    \/ PostUpload
    \/ PostUploadBatch
    \/ PostLogin
    \/ GetZipFailing
    \/ AnyRequest
    \/ Deliver

Spec == Init /\ [][Next]_vars

----------------------------------------------------------------------------
(* formatFileSize on its own *)

\* The digits sizes are generated from: zero, one, a quarter of the unit and
\* the largest digit.
SizeDigitValues == {0, 1, 256, 1023}

\* The non-negative int64 sizes generated: every length up to SizeDigits, the
\* top digit not zero (but for the size 0) and, in the seventh place, at
\* most 7, so that <<1023, ..., 1023, 7>> is the largest int64.
Sizes ==
    UNION {{d \in [1..k -> SizeDigitValues \cup {7}] :
               /\ k > 1 => d[k] # 0
               /\ \A i \in 1..k : d[i] = 7 => i = SizeDigits
               /\ k = SizeDigits => d[k] \in {1, 7}} : k \in 1..SizeDigits}

SizeInit ==
    /\ password = ""
    /\ frontend = FALSE
    /\ dirs = BaseDirs
    /\ files = BaseFiles
    /\ jar = NoSession
    /\ phase = "idle"
    /\ req = NoReq
    /\ resp = NoResp
    /\ fsOps = {}
    /\ route = ""
    /\ invoked = FALSE
    /\ sizeArg \in [size : Sizes, isDir : BOOLEAN]
    /\ sizeStr = NoSizeText
    /\ NoUploadsRunning

\* A listing entry is built: formatFileSize(info.Size(), info.IsDir()).
FormatEntry ==
    /\ sizeStr = NoSizeText
    /\ sizeStr' = formatFileSize(sizeArg.size, sizeArg.isDir)
    /\ UNCHANGED <<password, frontend, dirs, files, jar, phase, req, resp,
                   fsOps, route, invoked, sizeArg>>
    /\ UNCHANGED <<srcFile, destFile, pc, offset, uploadedCount>>

SizeNext == FormatEntry

SizeSpec == SizeInit /\ [][SizeNext]_vars

----------------------------------------------------------------------------
(* Two handlers in handleUpload's loop with one destPath *)

UploadRaceInit ==
    /\ password = ""
    /\ frontend = FALSE
    /\ dirs = BaseDirs
    /\ files = BaseFiles
    /\ jar = NoSession
    /\ phase = "idle"
    /\ req = NoReq
    /\ resp = NoResp
    /\ fsOps = {}
    /\ route = ""
    /\ invoked = FALSE
    /\ sizeArg = [size |-> <<0>>, isDir |-> TRUE]
    /\ sizeStr = NoSizeText
    /\ \E n \in 1..MaxChunks : \E m \in 1..MaxChunks :
          srcFile = [u \in Uploaders |->
                        [i \in 1..(IF u = 1 THEN n ELSE m) |-> <<u, i>>]]
    /\ destFile = <<>>
    /\ pc = [u \in Uploaders |-> "create"]
    /\ offset = [u \in Uploaders |-> 0]
    /\ uploadedCount = [u \in Uploaders |-> 0]

\* destFile, err := os.Create(destPath): the file is there and empty, and the
\* handle writes from its start.
Create ==
    \E u \in Uploaders :
        /\ pc[u] = "create"
        /\ destFile' = <<>>
        /\ offset' = [offset EXCEPT ![u] = 0]
        /\ pc' = [pc EXCEPT ![u] = "copy"]
        /\ UNCHANGED <<srcFile, uploadedCount>>
        /\ UNCHANGED <<password, frontend, dirs, files, jar, phase, req, resp,
                       fsOps, route, invoked, sizeArg, sizeStr>>

\* io.Copy(destFile, file) writes the next chunk at the handle's offset.
Copy ==
    \E u \in Uploaders :
        /\ pc[u] = "copy"
        /\ offset[u] < Len(srcFile[u])
        /\ destFile' = WriteAt(destFile, offset[u], srcFile[u][offset[u] + 1])
        /\ offset' = [offset EXCEPT ![u] = @ + 1]
        /\ UNCHANGED <<srcFile, pc, uploadedCount>>
        /\ UNCHANGED <<password, frontend, dirs, files, jar, phase, req, resp,
                       fsOps, route, invoked, sizeArg, sizeStr>>

\* io.Copy returns without error: uploadedCount++, and the redirect reports it.
Counted ==
    \E u \in Uploaders :
        /\ pc[u] = "copy"
        /\ offset[u] = Len(srcFile[u])
        /\ uploadedCount' = [uploadedCount EXCEPT ![u] = @ + 1]
        /\ pc' = [pc EXCEPT ![u] = "done"]
        /\ UNCHANGED <<srcFile, destFile, offset>>
        /\ UNCHANGED <<password, frontend, dirs, files, jar, phase, req, resp,
                       fsOps, route, invoked, sizeArg, sizeStr>>

UploadRaceNext == Create \/ Copy \/ Counted

UploadRaceSpec == UploadRaceInit /\ [][UploadRaceNext]_vars

----------------------------------------------------------------------------
(* The listing of a large directory *)

\* The names of the large directory: thirteen of these fourteen.
LargeNames ==
    {<<"A">>, <<"B">>, <<"C">>, <<"D">>, <<"E">>, <<"F">>, <<"G">>,
     <<"a">>, <<"b">>, <<"c">>, <<"d">>, <<"e">>, <<"f">>, <<"g">>}

\* The shared directory holds thirteen entries, one of them at most a
\* directory; no password, no bundle.
LargeInit ==
    /\ password = ""
    /\ frontend = FALSE
    /\ \E left \in LargeNames : \E sub \in SUBSET (LargeNames \ {left}) :
          /\ Cardinality(sub) <= 1
          /\ dirs = {Slash, rootDir} \cup {Join(rootDir, n) : n \in sub}
          /\ files = {Join(rootDir, n) : n \in (LargeNames \ {left}) \ sub}
    /\ jar = NoSession
    /\ phase = "idle"
    /\ req = NoReq
    /\ resp = NoResp
    /\ fsOps = {}
    /\ route = ""
    /\ invoked = FALSE
    /\ sizeArg = [size |-> <<0>>, isDir |-> TRUE]
    /\ sizeStr = NoSizeText
    /\ NoUploadsRunning

\* The browser asks for the page of the shared directory.
GetRoot == Handle(Request("GET", Slash, Empty, "", jar, NoBasic, NoForm))

LargeNext == GetRoot \/ Deliver

LargeSpec == LargeInit /\ [][LargeNext]_vars

----------------------------------------------------------------------------
(* Properties *)

\* A request has been answered and the answer is still in view.
Responded == phase = "responded"

\* A request came with neither the session cookie nor a matching Basic-Auth
\* password.
NoCredentials(r) ==
    /\ ~(r.cookie.present /\ r.cookie.value = "authenticated")
    /\ ~(r.basic.ok /\ r.basic.pass = password)

\* Every filesystem call made for the request named a path in rootDir.
OpsInsideRoot == \A op \in fsOps : Inside(op[2], rootDir)

\* The segments of a path include "..".
HasDotDot(p) == \E i \in 1..Len(Split(p)) : Split(p)[i] = DotDot

\* C1: whatever URL path (beginning with "/", with any "." and ".." segments)
\* the path browser of FileHandler.ServeHTTP resolves, every path it hands to
\* Stat, Open, ReadDir or the zip walk is rootDir or lies below it.
C1_BrowseStaysInRoot ==
    (Responded /\ invoked /\ ServeBranch(req) = "browse") => OpsInsideRoot

\* C1 witness: a URL path starting with a ".." segment was browsed and the
\* zip walk ran on what it resolved to.
C1_Witness ==
    /\ Responded /\ invoked /\ ServeBranch(req) = "browse"
    /\ Len(req.path) >= 3 /\ SubSeq(req.path, 1, 3) = <<"/", ".", ".">>
    /\ \E op \in fsOps : op[1] = "Walk"

\* The request is one handleAPIFiles answers.
IsAPIFiles(r) ==
    /\ ServeBranch(r) = "api"
    /\ APIBranch(TrimPrefix(r.path, ApiStrip)) = "files"

\* C2: whatever the `path` query parameter of GET /api/files (no leading
\* separator, ".." segments, a sibling directory whose path has rootDir as a
\* bare string prefix), handleAPIFiles stats and lists only rootDir and
\* directories below it.
C2_APIFilesStaysInRoot ==
    (Responded /\ invoked /\ IsAPIFiles(req)) => OpsInsideRoot

\* What the filesystem holds that was not there at startup.
Created == (dirs \cup files) \ (BaseDirs \cup BaseFiles \cup BundleDirs \cup BundleFiles)

\* The directory an upload's `directory` field names, resolved against rootDir.
UploadTarget(r) ==
    FsPath(CleanRequestPath(IF r.form.directory = Empty THEN Slash
                            ELSE r.form.directory))

\* C3: whatever the `directory` field of POST /upload, handleUpload creates
\* no directory and no file outside rootDir; an upload whose target is out of
\* bounds is rejected with 403; and the files of an upload whose target is in
\* bounds are saved there.
C3_UploadStaysInRoot ==
    /\ \A p \in Created : Inside(p, rootDir)
    /\ (Responded /\ invoked /\ ServeBranch(req) = "upload" /\ req.form.parses)
         => /\ ~Inside(UploadTarget(req), rootDir) => resp.status = 403
            /\ (Inside(UploadTarget(req), rootDir) /\ resp.status = 303)
                 => \A i \in 1..Len(req.form.files) :
                        LET dest == Join(UploadTarget(req), req.form.files[i].name)
                        IN  req.form.files[i].name # DotDot => dest \in files

\* C4: with a password configured, a request the gate receives that is not a
\* POST to /login and carries neither the session cookie nor a matching
\* Basic-Auth password gets 401 and the login form, and the wrapped handler
\* does not run.
C4_GateRejects ==
    (/\ Responded /\ route = "gate" /\ password # ""
     /\ ~(req.method = "POST" /\ req.path = LoginPath)
     /\ NoCredentials(req))
        => /\ resp.status = 401
           /\ resp.body = "login_form"
           /\ ~invoked
           /\ fsOps = {}

\* C4 witness: a GET of an existing directory with a stale cookie and a wrong
\* Basic-Auth password was turned away.
C4_Witness ==
    /\ Responded /\ route = "gate" /\ password # ""
    /\ req.method = "GET" /\ req.path = <<"/", "a">>
    /\ req.cookie.present /\ req.basic.ok /\ NoCredentials(req)
    /\ resp.status = 401

\* The request is a login POST that the gate receives with a password
\* configured.
IsLogin(r) ==
    /\ route = "gate" /\ password # ""
    /\ r.method = "POST" /\ r.path = LoginPath

\* A redirect target as the login form embeds it: the URL path of a request,
\* rooted and clean (a trailing slash allowed).
RequestedPath(u) ==
    /\ u # Empty /\ Head(u) = Sep
    /\ (Clean(u) = u \/ Clean(u) \o Slash = u)

\* C5: with a password configured, POST /login with the configured password
\* sets the cookie auth_session=authenticated (HttpOnly, Path=/,
\* Max-Age=86400) and answers 303 with Location the submitted redirect value
\* (the originally requested path), or / when the field is empty; the wrapped
\* handler does not run.
C5_LoginSucceeds ==
    (Responded /\ IsLogin(req) /\ req.form.password = password)
        => /\ resp.status = 303
           /\ resp.setCookie = [name |-> "auth_session", value |-> "authenticated",
                                path |-> "/", httpOnly |-> TRUE, maxAge |-> 86400]
           /\ req.form.redirect = Empty => resp.location = Slash
           /\ RequestedPath(req.form.redirect) => resp.location = req.form.redirect
           /\ ~invoked
           /\ fsOps = {}

\* C5 witness: a login with the right password and redirect=/a was answered
\* with a redirect to /a.
C5_Witness ==
    /\ Responded /\ IsLogin(req) /\ req.form.password = password
    /\ NoCredentials(req)
    /\ req.form.redirect = <<"/", "a">>
    /\ resp.location = <<"/", "a">>

\* C6: with a password configured, POST /login with any other password gets
\* 401 and the login form with its error message; no cookie is set and the
\* wrapped handler does not run.
C6_LoginFails ==
    (Responded /\ IsLogin(req) /\ req.form.password # password)
        => /\ resp.status = 401
           /\ resp.body = "login_form_error"
           /\ resp.setCookie = NoCookie
           /\ resp.location = Empty
           /\ ~invoked
           /\ fsOps = {}

\* C6 witness: a login with a wrong password was turned away.
C6_Witness ==
    /\ Responded /\ IsLogin(req)
    /\ req.form.password = "bad"
    /\ resp.status = 401

\* C7: once a login has succeeded and the client holds the cookie it issued,
\* every later GET to a gated path that carries that cookie, and no password,
\* reaches the handler; when the path names something that exists the answer
\* is 200.
C7_CookiePasses ==
    (/\ Responded /\ route = "gate" /\ password # ""
     /\ jar.present /\ req.cookie = jar
     /\ req.method = "GET" /\ ~req.basic.ok /\ req.form.password = "")
        => /\ invoked
           /\ (/\ ServeBranch(req) = "browse"
               /\ Stat(FsPath(CleanRequestPath(req.path))) # "notexist")
                 => resp.status = 200

\* C7 witness: after a login, a GET of the directory /a with the issued cookie
\* got the listing.
C7_Witness ==
    /\ Responded /\ route = "gate" /\ password # ""
    /\ jar.present /\ req.cookie = jar
    /\ req.method = "GET" /\ ~req.basic.ok
    /\ req.path = <<"/", "a">>
    /\ resp.status = 200 /\ resp.body = "html_listing"

\* C8: with no password configured, every request to a path behind the gate
\* reaches the handler without credentials and never gets 401 or the login
\* form.
C8_OpenPasses ==
    (Responded /\ route = "gate" /\ password = "")
        => /\ invoked
           /\ resp.status # 401
           /\ resp.body \notin {"login_form", "login_form_error"}

\* C8 witness: with no password, a GET of / without cookie or Basic-Auth got
\* the listing.
C8_Witness ==
    /\ Responded /\ route = "gate" /\ password = ""
    /\ req.method = "GET" /\ req.path = Slash
    /\ ~req.cookie.present /\ ~req.basic.ok
    /\ invoked /\ resp.status = 200 /\ resp.body = "html_listing"

\* C9: with the frontend bundle present and a password configured, GET
\* /api/files without the session cookie and without a matching Basic-Auth
\* password gets no directory listing.
C9_APIFilesGated ==
    (/\ Responded /\ frontend /\ password # ""
     /\ req.method = "GET" /\ req.path = ApiFilesPath
     /\ NoCredentials(req))
        => resp.body # "json_listing"

\* C10: with or without the bundle, a request to /api/auth/check (other than
\* a preflight) is answered 200 with the flag `authenticated`, true exactly
\* when no password is configured or the request carries the session cookie
\* or a matching Basic-Auth password; it never gets 401 and the login form,
\* sets no cookie and touches no file.
C10_AuthCheckExempt ==
    (Responded /\ req.path = AuthCheckPath /\ req.method # "OPTIONS")
        => /\ resp.status = 200
           /\ resp.body = IF password = "" \/ ~NoCredentials(req)
                          THEN "auth_true" ELSE "auth_false"
           /\ resp.setCookie = NoCookie
           /\ fsOps = {}

\* C11: an OPTIONS request to any path, with or without a password, with or
\* without credentials, with or without the bundle, is answered with an empty
\* 200 and is not gated.
C11_OptionsUngated ==
    (Responded /\ req.method = "OPTIONS")
        => /\ resp.status = 200
           /\ resp.body = "empty"

GatedWithBundle(path) ==
    \/ path = <<"/", "l", "o", "g", "i", "n">>
    \/ path = <<"/", "u", "p", "l", "o", "a", "d">>
    \/ HasPrefix(path, <<"/", "f", "i", "l", "e", "s", "/">>)

InOrder(a, b) ==
    IF a.isDir # b.isDir THEN a.isDir
    ELSE ~StrLess(ToLower(b.name), ToLower(a.name))

ListingInOrder(list) ==
    \A i \in 1..Len(list) : \A j \in 1..Len(list) :
        i < j => InOrder(list[i], list[j])

\* The names b.txt and C.txt, whose order differs with and without case.
LowerFirst == <<"b", ".", "t", "x", "t">>
UpperSecond == <<"C", ".", "t", "x", "t">>

\* A listing shows b.txt and C.txt, and a directory whose name sorts after a
\* file's.
MixedCase(list) ==
    /\ \E i \in 1..Len(list) : list[i].name = LowerFirst
    /\ \E i \in 1..Len(list) : list[i].name = UpperSecond
    /\ \E i \in 1..Len(list) : \E j \in 1..Len(list) :
          /\ list[i].isDir /\ ~list[j].isDir
          /\ StrLess(ToLower(list[j].name), ToLower(list[i].name))

\* C14: in the HTML listing of a directory every pair of entries is in order:
\* a directory before a file, and within one kind by lower-cased name.
C14_HTMLListingOrder ==
    (Responded /\ resp.body = "html_listing") => ListingInOrder(resp.listing)

\* C14 witness: the HTML listing of a directory holding b.txt, C.txt and a
\* directory named after them.
C14_Witness ==
    /\ Responded /\ resp.body = "html_listing"
    /\ MixedCase(resp.listing)

\* C15: in the JSON listing of GET /api/files every pair of entries is in
\* order: a directory before a file, and within one kind by lower-cased name,
\* also for names of mixed case such as b.txt and C.txt.
C15_APIListingOrder ==
    (Responded /\ resp.body = "json_listing") => ListingInOrder(resp.listing)

\* formatFileSize has returned.
Formatted == sizeStr # NoSizeText

\* C16: formatFileSize renders a directory as "-", a file of 0..1023 bytes as
\* "<n> B", and a larger file with one decimal and the unit letter K, M, G,
\* T, P or E numbered by how often the size divides by 1024 while the
\* quotient stays at least 1024 (one less than the count of divisions that
\* leave it non-zero); 1024 is "1.0 KB" and 1048576 is "1.0 MB"; the letter
\* is one of the six for every size up to the largest int64.
C16_FormatFileSize ==
    Formatted =>
        /\ sizeArg.isDir => sizeStr = [whole |-> 0, decimals |-> 0, tenth |-> 0, unit |-> "-"]
        /\ (~sizeArg.isDir /\ Len(sizeArg.size) = 1)
              => sizeStr = [whole |-> sizeArg.size[1], decimals |-> 0,
                            tenth |-> 0, unit |-> "B"]
        /\ (~sizeArg.isDir /\ Len(sizeArg.size) > 1)
              => /\ sizeStr.decimals = 1
                 /\ Len(sizeArg.size) - 1 \in 1..6
                 /\ sizeStr.unit = <<"KB", "MB", "GB", "TB", "PB", "EB">>[Len(sizeArg.size) - 1]
        /\ (~sizeArg.isDir /\ sizeArg.size = <<0, 1>>)
              => sizeStr = [whole |-> 1, decimals |-> 1, tenth |-> 0, unit |-> "KB"]
        /\ (~sizeArg.isDir /\ sizeArg.size = <<0, 0, 1>>)
              => sizeStr = [whole |-> 1, decimals |-> 1, tenth |-> 0, unit |-> "MB"]

\* C16 witness: the largest int64, 2^63 - 1, was rendered with the letter E.
C16_Witness ==
    /\ Formatted /\ ~sizeArg.isDir
    /\ sizeArg.size = <<1023, 1023, 1023, 1023, 1023, 1023, 7>>
    /\ sizeStr.unit = "EB"

\* The directory a zip download walked.
Walked == FsPath(CleanRequestPath(req.path))

\* The name of path q relative to directory p above it.
Below(p, q) == SubSeq(q, Len(p) + 2, Len(q))

\* The positions of the archive's entries equal to e.
Positions(e) == {i \in 1..Len(resp.zip) : resp.zip[i] = e}

\* C17: the zip of a directory has exactly one file entry per regular file of
\* the subtree, named by its path relative to the walked root and holding
\* that file's bytes, exactly one directory entry (name ending in "/") per
\* subdirectory, empty or not, and nothing else; a directory that holds one
\* empty directory and one file (as /a does at startup) yields exactly one
\* directory entry and one file entry.
C17_ZipContents ==
    (Responded /\ resp.body = "zip")
        => /\ \A f \in (Subtree(Walked) \cap files) :
                Cardinality(Positions([name |-> Below(Walked, f), isDir |-> FALSE,
                                       from |-> f])) = 1
           /\ \A d \in (Subtree(Walked) \cap dirs) \ {Walked} :
                Cardinality(Positions([name |-> Below(Walked, d) \o <<"/">>,
                                       isDir |-> TRUE, from |-> <<>>])) = 1
           /\ Len(resp.zip) = Cardinality(Subtree(Walked)) - 1
           /\ (/\ Cardinality((Subtree(Walked) \cap dirs) \ {Walked}) = 1
               /\ Cardinality(Subtree(Walked) \cap files) = 1)
                => /\ Cardinality({i \in 1..Len(resp.zip) : resp.zip[i].isDir}) = 1
                   /\ Cardinality({i \in 1..Len(resp.zip) : ~resp.zip[i].isDir}) = 1

\* C17 witness: the zip of /a, with the entry e/ and the entry g holding the
\* bytes of /s/a/g.
C17_Witness ==
    /\ Responded /\ resp.body = "zip"
    /\ req.path = <<"/", "a">>
    /\ resp.zip = << [name |-> <<"e", "/">>, isDir |-> TRUE, from |-> <<>>],
                     [name |-> <<"g">>, isDir |-> FALSE, from |-> <<"/", "s", "/", "a", "/", "g">>] >>

\* The directory a zip download walked is empty.
WalkedEmpty == Subtree(Walked) = {Walked}

\* C18 as stated: the zip download of an empty directory holds one directory
\* entry, named after the directory (sub/) or an equivalent relative form.
C18_EmptyDirEntry ==
    (Responded /\ resp.body = "zip" /\ WalkedEmpty)
        => /\ Len(resp.zip) = 1
           /\ resp.zip[1].isDir
           /\ resp.zip[1].name \in {Base(Walked) \o <<"/">>, <<".", "/">>, <<"/">>}

\* C18 amended: the zip download of an empty directory holds no entry, the
\* walked root getting none; the zip download of a directory holding an
\* empty directory has exactly one directory entry for it, named by its
\* relative path and "/".
C18_EmptyDirAmended ==
    (Responded /\ resp.body = "zip")
        => /\ WalkedEmpty => resp.zip = <<>>
           /\ \A d \in dirs :
                (Dir(d) = Walked /\ d # Walked /\ Subtree(d) = {d})
                    => Cardinality(Positions([name |-> Base(d) \o <<"/">>,
                                              isDir |-> TRUE, from |-> <<>>])) = 1

\* C18 witness: the zip download of the empty directory /a/e.
C18_Witness ==
    /\ Responded /\ resp.body = "zip" /\ WalkedEmpty
    /\ req.path = <<"/", "a", "/", "e">>
    /\ resp.zip = <<>>

\* An upload ran its loop over the files and answered with the redirect.
Uploaded ==
    /\ Responded /\ invoked
    /\ req.method = "POST" /\ req.path = <<"/", "u", "p", "l", "o", "a", "d">>
    /\ resp.status = 303

\* The destination of the i-th file of the upload.
Dest(i) == Join(UploadTarget(req), req.form.files[i].name)

\* The i-th file opened, its destination was created and the copy completed.
Written(i) == req.form.files[i].fault = "none" /\ Dest(i) \notin dirs

\* The i-th file opened and its destination was created, but the copy failed.
Partial(i) == req.form.files[i].fault = "copy" /\ Dest(i) \notin dirs

\* C19: in an upload of several files a file whose open, create or copy fails
\* is skipped without ending the batch: every other file is written, a
\* destination whose copy failed is removed, and the redirect's count (absent
\* when 0) is the number of files written completely.
C19_UploadSkipsFailures ==
    Uploaded =>
        LET n == Len(req.form.files)
        IN  /\ resp.uploaded = Cardinality({i \in 1..n : Written(i)})
            /\ \A i \in 1..n :
                  (Written(i) /\ ~\E j \in (i + 1)..n : Partial(j) /\ Dest(j) = Dest(i))
                      => Dest(i) \in files
            /\ \A i \in 1..n :
                  (Partial(i) /\ ~\E j \in (i + 1)..n : Written(j) /\ Dest(j) = Dest(i))
                      => Dest(i) \notin files

\* C19 witness: a batch of f, whose copy fails, then g: f is not there, g was
\* written and counted.
C19_Witness ==
    /\ Uploaded
    /\ Len(req.form.files) = 2
    /\ req.form.files[1].fault = "copy"
    /\ req.form.files[2] = [name |-> <<"g">>, fault |-> "none"]
    /\ req.form.directory = <<"/", "a">>
    /\ resp.uploaded = 1
    /\ <<"/", "s", "/", "a", "/", "g">> \in files
    /\ <<"/", "s", "/", "a", "/", "f">> \notin files

\* The path a request names, resolved as the three handlers resolve it:
\* joined onto rootDir after cleaning.
Resolved(p) == Join(rootDir, TrimPrefix(CleanRequestPath(IF p = <<>> THEN <<"/">> ELSE p), <<"/">>))

\* The handler ran one of its three resolving branches and the containment
\* check, rootDir being a string prefix of the resolved path, failed.
CheckFailed ==
    /\ Responded /\ invoked
    /\ \/ ServeBranch(req) = "browse" /\ ~HasPrefix(Resolved(req.path), rootDir)
       \/ IsAPIFiles(req) /\ ~HasPrefix(Resolved(req.qpath), rootDir)
       \/ /\ ServeBranch(req) = "upload" /\ req.form.parses
          /\ ~HasPrefix(Resolved(req.form.directory), rootDir)

\* C20: whenever the containment check of ServeHTTP, handleAPIFiles or
\* handleUpload fails, the answer is 403 and no filesystem call (Stat,
\* ReadDir, MkdirAll, Create, Open) was made for the request.
C20_DeniedBeforeAccess ==
    CheckFailed => (resp.status = 403 /\ fsOps = {})

\* C20 witness: an upload into the directory ".." was refused.
C20_Witness ==
    /\ CheckFailed
    /\ req.path = <<"/", "u", "p", "l", "o", "a", "d">>
    /\ req.form.directory = <<".", ".">>
    /\ resp.status = 403

\* A GET was handled by the path browser and its path resolved to something
\* that exists.
BrowsedExisting ==
    /\ Responded /\ invoked
    /\ req.method = "GET" /\ ServeBranch(req) = "browse"
    /\ Walked \in dirs \cup files

\* C21: a GET of an existing path: a directory with ?download=zip streams a
\* zip attachment and with any other value gets the HTML listing; a file
\* with ?download=1 is sent with Content-Disposition: attachment and with any
\* other value, zip included, without it.
C21_DownloadModes ==
    BrowsedExisting =>
        /\ resp.status = 200
        /\ (Walked \in dirs /\ req.download = "zip")
              => (resp.body \in {"zip", "zip_truncated"} /\ resp.attachment)
        /\ (Walked \in dirs /\ req.download # "zip")
              => (resp.body = "html_listing" /\ ~resp.attachment)
        /\ (Walked \in files /\ req.download = "1")
              => (resp.body = "file" /\ resp.attachment)
        /\ (Walked \in files /\ req.download # "1")
              => (resp.body = "file" /\ ~resp.attachment)

\* C21 witness: the file /f asked for with ?download=zip was sent as a plain
\* file.
C21_Witness ==
    /\ BrowsedExisting
    /\ req.path = <<"/", "f">> /\ req.download = "zip"
    /\ resp.body = "file" /\ ~resp.attachment

\* The entries a listing shows, as a set.
Shown == {resp.listing[i] : i \in 1..Len(resp.listing)}

\* The directory GET /api/files listed.
Listed == Resolved(req.qpath)

\* The name of an entry begins with ".".
Hidden(e) == e.name[1] = "."

\* C22: the HTML listing of a directory shows every entry of it, those whose
\* name begins with "." included; the JSON listing of a directory shows
\* exactly the entries whose name does not begin with "."; each entry once.
C22_HiddenEntries ==
    /\ (Responded /\ resp.body = "html_listing")
          => /\ Shown = Entries(Walked)
             /\ Len(resp.listing) = Cardinality(Entries(Walked))
    /\ (Responded /\ resp.body = "json_listing")
          => /\ Shown = {e \in Entries(Listed) : ~Hidden(e)}
             /\ Len(resp.listing) = Cardinality({e \in Entries(Listed) : ~Hidden(e)})

\* C22 witness: the JSON listing of the shared directory, which holds the
\* file .h, without it.
C22_Witness ==
    /\ Responded /\ resp.body = "json_listing"
    /\ Listed = <<"/", "s">>
    /\ \E e \in Entries(Listed) : e.name = <<".", "h">>
    /\ \A e \in Shown : e.name # <<".", "h">>
    /\ Shown # {}

\* The HTML listing of the shared directory shows the file .h.
C22_HTMLShowsHidden ==
    /\ Responded /\ resp.body = "html_listing"
    /\ Walked = <<"/", "s">>
    /\ \E e \in Shown : e.name = <<".", "h">>

\* A request other than the login POST came to the gate, a password being
\* configured, without the session cookie.
AtBasicAuth ==
    /\ Responded /\ route = "gate" /\ password # ""
    /\ ~(req.method = "POST" /\ req.path = <<"/", "l", "o", "g", "i", "n">>)
    /\ ~(req.cookie.present /\ req.cookie.value = "authenticated")

ListingSent == Responded /\ resp.body \in {"html_listing", "json_listing"}

\* A path with its last segment removed; the root when nothing is left.
WithoutLast(path) ==
    LET segs == Split(path)
        front == JoinSegs(SubSeq(segs, 1, Len(segs) - 1))
    IN  IF front = <<>> THEN <<"/">> ELSE front

\* C24: in the HTML listing and in the JSON listing alike, has-parent is true
\* exactly when the cleaned current path is not "/"; the parent path is
\* empty when the current path is "/" and otherwise the current path with
\* its last segment removed.
C24_ParentPath ==
    ListingSent =>
        /\ resp.hasParent <=> (resp.currentPath # <<"/">>)
        /\ resp.currentPath = <<"/">> => resp.parentPath = <<>>
        /\ resp.currentPath # <<"/">> => resp.parentPath = WithoutLast(resp.currentPath)

\* The HTML listing alone keeps the rule of C24.
HTMLParentPathRule ==
    (Responded /\ resp.body = "html_listing")
        => /\ resp.hasParent <=> (resp.currentPath # <<"/">>)
           /\ resp.currentPath = <<"/">> => resp.parentPath = <<>>
           /\ resp.currentPath # <<"/">> => resp.parentPath = WithoutLast(resp.currentPath)

\* The request carries the session cookie; it carries a matching Basic-Auth
\* password.
WithCookie(r) == r.cookie.present /\ r.cookie.value = "authenticated"
WithBasic(r) == r.basic.ok /\ r.basic.pass = password

\* C25: with a password configured the gate decides in a fixed order: a POST
\* to /login by the submitted password alone (303 and the cookie when it is
\* right, 401 and the form with its error when it is wrong, the handler not
\* run either way, whatever cookie or Basic-Auth header comes with it), then
\* the session cookie, then Basic-Auth, and else the login form.
C25_GateOrder ==
    (Responded /\ route = "gate" /\ password # "")
        => IF req.method = "POST" /\ req.path = <<"/", "l", "o", "g", "i", "n">>
           THEN /\ ~invoked
                /\ req.form.password = password
                      => (resp.status = 303 /\ resp.setCookie.value = "authenticated")
                /\ req.form.password # password
                      => (resp.status = 401 /\ resp.body = "login_form_error"
                          /\ resp.setCookie.name = "")
           ELSE IF WithCookie(req) \/ WithBasic(req)
           THEN invoked /\ resp.setCookie.name = ""
           ELSE ~invoked /\ resp.status = 401 /\ resp.body = "login_form"

\* C25 witness: a login with a wrong password was refused although the
\* request carried the session cookie.
C25_Witness ==
    /\ Responded /\ route = "gate" /\ password # ""
    /\ req.method = "POST" /\ req.path = <<"/", "l", "o", "g", "i", "n">>
    /\ WithCookie(req)
    /\ req.form.password = "bad"
    /\ resp.status = 401 /\ ~invoked

\* FileHandler.ServeHTTP answered the request.
Served == Responded /\ invoked

\* The request's path is under /api/; it is the path of the file-listing API.
UnderAPI(r) == HasPrefix(r.path, <<"/", "a", "p", "i", "/">>)
AtAPIFiles(r) == r.path = <<"/", "a", "p", "i", "/", "f", "i", "l", "e", "s">>
BelowAPIFiles(r) ==
    HasPrefix(r.path, <<"/", "a", "p", "i", "/", "f", "i", "l", "e", "s", "/">>)
AtAuthCheck(r) ==
    r.path = <<"/", "a", "p", "i", "/", "a", "u", "t", "h", "/", "c", "h", "e", "c", "k">>
AtUpload(r) == r.path = <<"/", "u", "p", "l", "o", "a", "d">>

\* The branches the order leaves no doubt about: OPTIONS before everything,
\* then the status probe, and /upload browsed unless the method is POST.
FixedBranches ==
    /\ req.method = "OPTIONS"
          => resp.status = 200 /\ resp.body = "empty" /\ fsOps = {}
    /\ (req.method # "OPTIONS" /\ AtAuthCheck(req))
          => resp.status = 200 /\ resp.body \in {"auth_true", "auth_false"}
             /\ fsOps = {}
    /\ (req.method # "OPTIONS" /\ AtAPIFiles(req))
          => resp.body \in {"json_listing", "error"}
             /\ \A op \in fsOps : op[1] \in {"Stat", "ReadDir"}
    /\ (req.method \notin {"OPTIONS", "POST"} /\ AtUpload(req))
          => /\ resp.uploaded = 0
             /\ fsOps = {<<"Stat", <<"/", "s", "/", "u", "p", "l", "o", "a", "d">>>>}
             /\ resp.status = 404

\* C26: FileHandler.ServeHTTP takes each request in one branch, in the order
\* OPTIONS, /api/auth/check, the /api/ prefix, POST /upload, the path browser:
\* OPTIONS gets the empty 200 and neither lists nor writes, a request to
\* /upload that is not a POST is a browse of the path /upload, and a path
\* under /api/ other than /api/files is answered 404.
C26_BranchOrder ==
    Served =>
        /\ FixedBranches
        /\ (req.method # "OPTIONS" /\ UnderAPI(req) /\ ~AtAuthCheck(req)
                /\ ~AtAPIFiles(req))
              => resp.status = 404 /\ fsOps = {}

\* C26, amended: as above, except that the paths below /api/files/ are
\* answered by the file-listing API as /api/files is; every other path under
\* /api/ is answered 404.
C26_BranchOrderAmended ==
    Served =>
        /\ FixedBranches
        /\ (req.method # "OPTIONS" /\ BelowAPIFiles(req))
              => resp.body \in {"json_listing", "error"} /\ resp.status # 404
        /\ (req.method # "OPTIONS" /\ UnderAPI(req) /\ ~AtAuthCheck(req)
                /\ ~AtAPIFiles(req) /\ ~BelowAPIFiles(req))
              => resp.status = 404 /\ fsOps = {}

\* C26 witness: a GET of /upload was browsed, not uploaded.
C26_Witness ==
    /\ Served /\ req.method = "GET" /\ AtUpload(req)
    /\ resp.status = 404 /\ resp.uploaded = 0

\* A path below /api/files/ was answered with the listing of the root.
C26_BelowFilesListed ==
    /\ Served /\ req.method = "GET" /\ BelowAPIFiles(req)
    /\ resp.status = 200 /\ resp.body = "json_listing"

\* A path under /api/ outside the file-listing API was answered 404.
C26_OtherAPINotFound ==
    /\ Served /\ req.method = "GET" /\ UnderAPI(req) /\ ~AtAPIFiles(req)
    /\ ~BelowAPIFiles(req) /\ resp.status = 404

\* The place of the entry named name in the directory read of fsPath.
ReadPlace(fsPath, name) ==
    CHOOSE i \in 1..Len(ReadDir(fsPath)) : ReadDir(fsPath)[i].name = name

\* Two entries of a listing tie: same kind, same name in lower case.
Tie(a, b) == a.isDir = b.isDir /\ ToLower(a.name) = ToLower(b.name)

\* C27: the order of the HTML listing is stable: two entries of the same kind
\* whose names are equal without regard to case stand in the listing in the
\* order in which the directory read returned them.
C27_StableOrder ==
    (Responded /\ resp.body = "html_listing")
        => \A i \in 1..Len(resp.listing) : \A j \in 1..Len(resp.listing) :
              (i < j /\ Tie(resp.listing[i], resp.listing[j]))
                 => ReadPlace(Join(rootDir, TrimPrefix(resp.currentPath, Slash)),
                              resp.listing[i].name)
                      < ReadPlace(Join(rootDir, TrimPrefix(resp.currentPath, Slash)),
                                  resp.listing[j].name)

\* The listing of the large directory is in order all the same: directories
\* first, then by name without regard to case.
LargeListingInOrder ==
    (Responded /\ resp.body = "html_listing")
        => /\ Len(resp.listing) = 13
           /\ \A i \in 1..(Len(resp.listing) - 1) :
                 ~htmlLess(resp.listing[i + 1], resp.listing[i])

\* p comes before q in the walk: segment by segment, in the order of the
\* names, a directory before what it holds.
RECURSIVE SegsBefore(_, _)
SegsBefore(p, q) ==
    IF q = <<>> THEN FALSE
    ELSE IF p = <<>> THEN TRUE
    ELSE IF Head(p) = Head(q) THEN SegsBefore(Tail(p), Tail(q))
    ELSE StrLess(Head(p), Head(q))

WalkBefore(p, q) == SegsBefore(Split(p), Split(q))

\* The path an entry of the archive stands for.
EntryPath(e) ==
    Walked \o (IF Walked = <<"/">> THEN <<>> ELSE <<"/">>)
           \o (IF e.isDir THEN SubSeq(e.name, 1, Len(e.name) - 1) ELSE e.name)

\* A zip download whose walk failed on a file of the walked directory.
WalkFailed ==
    /\ Responded /\ invoked /\ req.method = "GET" /\ req.download = "zip"
    /\ Walked \in dirs
    /\ req.fault.kind \in {"lstat", "open", "copy"}
    /\ req.fault.path \in Subtree(Walked) \cap files

\* C28: when the walk of a zip download fails on a file, the stream is cut
\* there: the archive has the complete entries of everything the walk came to
\* before it, at most a started entry for the failing file itself (none when
\* the file had vanished), and no entry for anything after it; the answer
\* keeps its status 200 and carries no error body.
C28_WalkFailureAborts ==
    WalkFailed =>
        /\ resp.status = 200 /\ resp.body # "error"
        /\ \A i \in 1..Len(resp.zip) :
              \/ /\ WalkBefore(EntryPath(resp.zip[i]), req.fault.path)
                 /\ ~resp.zip[i].isDir => resp.zip[i].from = EntryPath(resp.zip[i])
              \/ /\ EntryPath(resp.zip[i]) = req.fault.path
                 /\ i = Len(resp.zip)
                 /\ req.fault.kind # "lstat"
                 /\ resp.zip[i].from = <<>>
        /\ \A q \in Subtree(Walked) \ {Walked} :
              WalkBefore(q, req.fault.path)
                 => \E i \in 1..Len(resp.zip) : EntryPath(resp.zip[i]) = q
        /\ \A op \in fsOps :
              op[1] = "Open" => ~WalkBefore(req.fault.path, op[2])

\* C28 witness: the zip of the shared directory failed at the open of a/g; the
\* archive ends with the started entry a/g and has nothing of b.txt and f.
C28_Witness ==
    /\ WalkFailed
    /\ req.path = <<"/">>
    /\ req.fault = [path |-> <<"/", "s", "/", "a", "/", "g">>, kind |-> "open"]
    /\ Len(resp.zip) = 6
    /\ resp.zip[6] = [name |-> <<"a", "/", "g">>, isDir |-> FALSE, from |-> <<>>]
    /\ resp.status = 200

\* The request is the posting of the login form.
LoginPosted(r) == r.method = "POST" /\ r.path = <<"/", "l", "o", "g", "i", "n">>

\* C29: the gate keeps nothing between requests: with a password configured,
\* whether a request is passed to the handler depends on the request alone
\* (not a login POST, and the session cookie or a matching Basic-Auth
\* password), whatever was asked and answered before; so a request with
\* auth_session=authenticated passes although no login has succeeded yet, and
\* passes as well whatever logins have failed.
C29_GateStateless ==
    (Responded /\ route = "gate" /\ password # "")
        => /\ invoked <=> (~LoginPosted(req) /\ (WithCookie(req) \/ WithBasic(req)))
           /\ (~jar.present /\ WithCookie(req) /\ ~LoginPosted(req)) => invoked

\* C29 witness: a request with the session cookie reached the handler while
\* the browser had never been given one.
C29_Witness ==
    /\ Responded /\ route = "gate" /\ password # ""
    /\ ~jar.present
    /\ WithCookie(req) /\ ~WithBasic(req) /\ ~LoginPosted(req)
    /\ invoked

\* A refused login takes nothing away: the cookie the browser holds stays.
FailedLoginKeepsCookie ==
    [][(Responded /\ LoginPosted(req) /\ resp.status = 401) => jar' = jar]_vars

\* Both uploads to the one destination have been answered.
BothDone == \A u \in {1, 2} : pc[u] = "done" /\ srcFile[u] # <<>>

\* C30: two POST /upload requests that write the same destination are handled
\* at once: however their create and copy steps interleave, the file left on
\* the disk is the whole file of exactly one of them, and each reports the
\* one file it wrote.
C30_ConcurrentUploads ==
    BothDone =>
        /\ destFile \in {srcFile[1], srcFile[2]}
        /\ \A u \in {1, 2} : uploadedCount[u] = 1

\* Each of the two reports one file: its own copy met no error.
BothCountOne == BothDone => \A u \in {1, 2} : uploadedCount[u] = 1

\* The two were answered and the file on the disk is neither one's file.
MixedFileLeft == BothDone /\ destFile \notin {srcFile[1], srcFile[2]}

=============================================================================
